---- MODULE Spec2Model ----
(***************************************************************************)
(* honey-dl: a paginated gallery crawler (src/honey-dl.py).                *)
(*                                                                         *)
(* The model follows main(): the set-up of the host directory, the         *)
(* resolution of the first page, the page loop with get_content, the       *)
(* per-page ThreadPoolExecutor and the download_image tasks.  The remote   *)
(* gallery, the network and the file system are the environment: every     *)
(* request outcome, page content and write failure is a nondeterministic   *)
(* choice.                                                                 *)
(***************************************************************************)
EXTENDS Integers, Sequences, FiniteSets, TLC

\* ---------------------------------------------------------------- bounds
MaxRetries == 2      \* --retries ranges over 0..MaxRetries
MaxBreak   == 2      \* --break-number ranges over 0..MaxBreak
MaxPageEnd == 2      \* --page-end ranges over 0..MaxPageEnd
MaxPage    == 3      \* pages above MaxPage are not requested (caps page-end = 0)
MaxItems   == 2      \* img.img-thumbnail elements on one page
MaxWorkers == 2      \* --workers ranges over 1..MaxWorkers
MaxPaths   == 1      \* distinct destination paths

Paths == 1..MaxPaths

\* page-start option
PageStartSet == 0..MaxPageEnd

\* what one requests.get can do: 200 with a body, 200 with an empty body,
\* another status, requests.exceptions.Timeout, another RequestException
Outcomes  == {"ok", "empty", "status", "timeout", "reqerr"}

\* soup.find_all returns 0..MaxItems elements; what each element's alt and
\* src hold is drawn when the submission loop reads them (lines 204-205)
PageSizes == 0..MaxItems

\* ---------------------------------------------------------------- strings
\* A str is a sequence of one-character strings; indices in the operators
\* below are Python's (0-based).
Digits == <<"0", "1", "2", "3", "4", "5", "6", "7", "8", "9">>

IsDigit(c) == \E d \in DOMAIN Digits : Digits[d] = c

DigitVal(c) == (CHOOSE d \in DOMAIN Digits : Digits[d] = c) - 1

AllDigits(s) == s # <<>> /\ \A k \in DOMAIN s : IsDigit(s[k])

\* int(s) for a string of digits
RECURSIVE ToInt(_)
ToInt(s) == IF s = <<>> THEN 0
          ELSE ToInt(SubSeq(s, 1, Len(s) - 1)) * 10 + DigitVal(s[Len(s)])

\* str(n), as the f-string of line 186 formats the page number
RECURSIVE Str(_)
Str(n) == IF n < 10 THEN <<Digits[n + 1]>>
          ELSE Str(n \div 10) \o <<Digits[(n % 10) + 1]>>

StartsWith(s, pre) == Len(pre) <= Len(s) /\ SubSeq(s, 1, Len(pre)) = pre

\* s[from:]
Tail0(s, from) == SubSeq(s, from + 1, Len(s))

\* s.find(sub): the lowest index where sub starts, -1 when it is absent
Find(s, sub) ==
    LET hits == {i \in 0..(Len(s) - Len(sub)) : SubSeq(s, i + 1, i + Len(sub)) = sub}
    IN  IF hits = {} THEN -1 ELSE CHOOSE i \in hits : \A j \in hits : i <= j

\* s.replace(old, ""): every non-overlapping occurrence, from the left
RECURSIVE Replace(_, _)
Replace(s, old) ==
    LET i == Find(s, old)
    IN  IF i = -1 THEN s
        ELSE SubSeq(s, 1, i) \o Replace(Tail0(s, i + Len(old)), old)

\* s.split(sep) for a one-character separator
RECURSIVE Split(_, _)
Split(s, sep) ==
    LET i == Find(s, <<sep>>)
    IN  IF i = -1 THEN <<s>>
        ELSE <<SubSeq(s, 1, i)>> \o Split(Tail0(s, i + 1), sep)

\* s[k] with Python's negative indices; "IndexError" when out of range
At(s, k) ==
    IF k >= 0 /\ k < Len(s) THEN s[k + 1]
    ELSE IF k < 0 /\ -k <= Len(s) THEN s[Len(s) + k + 1]
    ELSE "IndexError"

\* urlparse(url).query: the fragment is cut at the first '#', then the query
\* starts after the first '?'
Query(u) ==
    LET h == Find(u, <<"#">>)
        noFrag == IF h = -1 THEN u ELSE SubSeq(u, 1, h)
        q == Find(noFrag, <<"?">>)
    IN  IF q = -1 THEN <<>> ELSE Tail0(noFrag, q + 1)

\* --navigator (its default)
navigator == <<"g", "i", "t">>

\* line 159: re.search(rf"(\?|&|#){navigator}=(\d+)(&|$)", url)
Search(u) ==
    \E i \in 1..Len(u) :
        /\ u[i] \in {"?", "&", "#"}
        /\ StartsWith(Tail0(u, i), navigator \o <<"=">>)
        /\ \E e \in (i + Len(navigator) + 2)..Len(u) :
              /\ AllDigits(SubSeq(u, i + Len(navigator) + 2, e))
              /\ (e = Len(u) \/ u[e + 1] = "&")

\* lines 159-174: the first page and the seed without its navigator term.
\* In the f-string of line 167 the conditional is
\* `'&' if url[...] else ('' == '&')`: any character after param yields '&',
\* and no character after param raises IndexError (line 170).
ResolvedStart(u, ps) ==
    IF Search(u)
    THEN LET cands == SelectSeq(Split(Query(u), "&"),
                                LAMBDA q : StartsWith(q, navigator))
         IN  IF cands = <<>>
             THEN [url |-> u, page_start |-> ps, err |-> "IndexError"]
             ELSE LET param == cands[1]
                      fields == Split(param, "=")
                      value == fields[Len(fields)]
                      idx == Find(u, param)
                      prev == IF At(u, idx - 1) = "&" THEN <<"&">> ELSE <<>>
                  IN  IF ~AllDigits(value)
                      THEN [url |-> u, page_start |-> ps, err |-> "int ValueError"]
                      ELSE [url |-> IF At(u, idx + Len(param)) # "IndexError"
                                    THEN Replace(u, prev \o param \o <<"&">>)
                                    ELSE Replace(u, prev \o param),
                            page_start |-> ToInt(value),
                            err |-> "none"]
    ELSE [url |-> u, page_start |-> IF ps = 0 THEN 1 ELSE ps, err |-> "none"]

\* line 186: f"{url}&{navigator}={page}"
NavigatedUrl(u, p) == u \o <<"&">> \o navigator \o <<"=">> \o Str(p)

\* seed URLs: "x?" stands for "https://x/g?", then the query
Base == <<"x", "?">>
ParamA == <<"a", "=", "1">>
ParamB == <<"b", "=", "2">>
NavTerm == navigator \o <<"=">> \o Str(MaxPageEnd)

SeedPlain    == Base \o ParamA
SeedLast     == Base \o ParamA \o <<"&">> \o NavTerm
SeedFirst    == Base \o NavTerm \o <<"&">> \o ParamA
SeedMiddle   == Base \o ParamA \o <<"&">> \o NavTerm \o <<"&">> \o ParamB
SeedSole     == Base \o NavTerm
SeedFragment == Base \o ParamA \o <<"#">> \o NavTerm

\* the seeds of the crawls below, and those of the URL handling
Seeds    == {SeedPlain, SeedLast}
SeedUrls == {SeedPlain, SeedLast, SeedFirst, SeedMiddle, SeedSole, SeedFragment}

VARIABLES
    retries, break_number, page_end, page_start, force, workers, url,
    pc,          \* position of main()
    cause,       \* why main() left the loop or unwinds
    page, old_pages, navigated,
    gc,          \* the get_content call of the page fetch
    results,     \* number of <img class="img-thumbnail"> elements found
    tasks, collected, old_files,
    fs,          \* destination path -> "absent" | "old" | "new" | "partial"
    dirCreated, netUsed,
    hist,        \* one entry per evaluated page: "empty" | "skipped" | "other"
    unjoined     \* a page was left while one of its tasks had not finished

settings == <<retries, break_number, page_end, force, workers>>
config == <<settings, url>>
vars == <<retries, break_number, page_end, page_start, force, workers, url,
          pc, cause, page, old_pages, navigated, gc, results, tasks,
          collected, old_files, fs, dirCreated, netUsed, hist, unjoined>>

\* ------------------------------------------------------------ get_content
\* i: the loop counter; n: requests issued; ret: "run" while in the loop, then
\* the returned value; first: the attempt that got the first HTTP response
GCInit == [i |-> 1, n |-> 0, ret |-> "run", first |-> 0]

\* (mutation) the loop counter is not advanced after a failed attempt
get_contentNoAdvance(g, r, o) ==
    IF g.i <= r
    THEN LET a == [g EXCEPT !.n = @ + 1] IN
         CASE o = "ok"     -> [a EXCEPT !.ret = "bytes", !.first = a.n]
           [] o = "empty"  -> [a EXCEPT !.ret = "nobytes", !.first = a.n]
           [] o = "status" -> [a EXCEPT !.ret = "False", !.first = a.n]
           [] OTHER        -> IF g.i = r
                              THEN [a EXCEPT !.ret = "False"]
                              ELSE a
    ELSE [g EXCEPT !.ret = "None"]

\* (mutation) a status other than 200 is retried like a timeout
get_contentRetryStatus(g, r, o) ==
    IF g.i <= r
    THEN LET a == [g EXCEPT !.n = @ + 1] IN
         CASE o = "ok"     -> [a EXCEPT !.ret = "bytes", !.first = a.n]
           [] o = "empty"  -> [a EXCEPT !.ret = "nobytes", !.first = a.n]
           [] OTHER        -> LET b == IF o = "status" /\ a.first = 0
                                       THEN [a EXCEPT !.first = a.n] ELSE a
                              IN  IF g.i = r
                                  THEN [b EXCEPT !.ret = "False"]
                                  ELSE [b EXCEPT !.i = @ + 1]
    ELSE [g EXCEPT !.ret = "None"]

\* lines 56-81
get_content(g, r, o) ==
    IF g.i <= r
    THEN LET a == [g EXCEPT !.n = @ + 1] IN
         CASE o = "ok"     -> [a EXCEPT !.ret = "bytes", !.first = a.n]
           [] o = "empty"  -> [a EXCEPT !.ret = "nobytes", !.first = a.n]
           [] o = "status" -> [a EXCEPT !.ret = "False", !.first = a.n]
           [] OTHER        -> IF g.i = r
                              THEN [a EXCEPT !.ret = "False"]
                              ELSE [a EXCEPT !.i = @ + 1]
    ELSE [g EXCEPT !.ret = "None"]

\* response.content of a 200: a body with bytes, or b""
Bodies == {"bytes", "nobytes"}

\* `if content:` -- b"" , False and None are falsy
Truthy(ret) == ret = "bytes"

\* (mutation) the existence test is dropped
ShouldWriteAlways(exists, f) == TRUE

\* (mutation) the existence test is inverted
ShouldWriteIfExists(exists, f) == exists \/ f

\* (mutation) the force option is ignored
ShouldWriteNoForce(exists, f) == ~exists

\* line 43: `if not os.path.isfile(path) or force`
ShouldWrite(exists, f) == ~exists \/ f

\* --------------------------------------------------------------- helpers
Terminal(st) == st \in {"Downloaded", "Skipped", "Failed", "Raised"}

\* a worker thread is executing download_image for the task
Executing(st) == st \in {"get_content", "content", "open"}

NumExecuting == Cardinality({t \in DOMAIN tasks : Executing(tasks[t].st)})

\* (mutation) the pool runs one thread more than max_workers
WorkerFreeOneMore(n, w) == n <= w

\* (mutation) the pool starts a thread for every submitted task
WorkerFreeAlways(n, w) == TRUE

\* ThreadPoolExecutor(max_workers=workers): a queued task starts only while
\* fewer than max_workers threads are busy
WorkerFree(n, w) == n < w

\* (mutation) the pool is shut down without waiting for its tasks
PoolDrainedNoWait(ts) == TRUE

\* ThreadPoolExecutor.__exit__ -> shutdown(wait=True): every submitted task,
\* started or not, has finished
PoolDrained(ts) == \A t \in DOMAIN ts : Terminal(ts[t].st)

\* (mutation) the collecting loop stops at the first future that completes
AsCompletedFirst(ts, coll) == coll # {} \/ Len(ts) = 0

\* `for future in as_completed(tasks)` has yielded every future
AsCompletedDone(ts, coll) == coll = DOMAIN ts

\* (mutation) the page bound is tested one page late
LoopCondPageLate(p, pe, op, bn) == (p <= pe + 1 \/ pe = 0) /\ (op < bn \/ bn = 0)

\* (mutation) the duplicate-page bound is tested one page late
LoopCondBreakLate(p, pe, op, bn) == (p <= pe \/ pe = 0) /\ (op <= bn \/ bn = 0)

\* the while condition of the page loop
LoopCond(p, pe, op, bn) == (p <= pe \/ pe = 0) /\ (op < bn \/ bn = 0)

\* `if old_files == len(tasks): old_pages += 1`
NextOldPages(op, of, ts) == IF of = Len(ts) THEN op + 1 ELSE op

\* the outcomes of an evaluated page, as the spec's PageResult classifies them
PageKind(ts) ==
    IF Len(ts) = 0 THEN "empty"
    ELSE IF \A t \in DOMAIN ts : ts[t].st = "Skipped" THEN "skipped"
    ELSE "other"

Final == {"completed", "config_error", "interrupted", "crashed"}

\* what the process prints last, and its exit status
Report ==
    CASE pc = "completed"    -> "Downloading completed!"
      [] pc = "config_error" -> "Last page should be bigger or equal to first page"
      [] pc = "interrupted"  -> "Interrupted by user"
      [] pc = "crashed"      -> "Traceback"
      [] OTHER               -> "none"

ExitStatus ==
    CASE pc = "completed"    -> 0
      [] pc = "config_error" -> 1
      [] pc = "interrupted"  -> 0
      [] pc = "crashed"      -> 1
      [] OTHER               -> -1

\* ------------------------------------------------------------------ Init
Start(urls) ==
    /\ retries \in 0..MaxRetries
    /\ break_number \in 0..MaxBreak
    /\ page_end \in 0..MaxPageEnd
    /\ page_start \in PageStartSet
    /\ force \in BOOLEAN
    /\ workers \in 1..MaxWorkers
    /\ url \in urls
    /\ pc = "start"
    /\ cause = "none"
    /\ page = 0
    /\ old_pages = 0
    /\ navigated = 0
    /\ gc = GCInit
    /\ results = 0
    /\ tasks = <<>>
    /\ collected = {}
    /\ old_files = 0
    /\ fs \in [Paths -> {"absent", "old"}]
    /\ dirCreated = FALSE
    /\ netUsed = FALSE
    /\ hist = <<>>
    /\ unjoined = FALSE

Init == Start(Seeds)

\* ------------------------------------------------------------- main()
\* lines 150-156: the host directory and its .gitignore
Setup ==
    /\ pc = "start"
    /\ dirCreated' = TRUE
    /\ pc' = "resolve"
    /\ UNCHANGED <<config, page_start, cause, page, old_pages, navigated, gc,
                   results, tasks, collected, old_files, fs, netUsed, hist,
                   unjoined>>

\* lines 159-174: the first page
ResolveStart ==
    /\ pc = "resolve"
    /\ LET r == ResolvedStart(url, page_start) IN
       IF r.err = "none"
       THEN /\ url' = r.url
            /\ page_start' = r.page_start
            /\ pc' = "validate"
            /\ UNCHANGED cause
       ELSE /\ pc' = "unwinding"
            /\ cause' = r.err
            /\ UNCHANGED <<url, page_start>>
    /\ UNCHANGED <<settings, page, old_pages, navigated, gc, results,
                   tasks, collected, old_files, fs, dirCreated, netUsed, hist,
                   unjoined>>

\* lines 176-181
Validate ==
    /\ pc = "validate"
    /\ IF page_end # 0 /\ page_end < page_start
       THEN /\ pc' = "config_error"
            /\ cause' = "config"
            /\ UNCHANGED <<page, old_pages>>
       ELSE /\ pc' = "loop"
            /\ page' = page_start
            /\ old_pages' = 0
            /\ UNCHANGED cause
    /\ UNCHANGED <<config, page_start, navigated, gc, results, tasks,
                   collected, old_files, fs, dirCreated, netUsed, hist,
                   unjoined>>

\* lines 183-189: the loop test, the page URL and the call of get_content;
\* line 231 when the test fails
Loop ==
    /\ pc = "loop"
    /\ IF LoopCond(page, page_end, old_pages, break_number)
       THEN /\ page <= MaxPage
            /\ navigated' = page
            /\ gc' = GCInit
            /\ pc' = "get_content"
            /\ UNCHANGED cause
       ELSE /\ pc' = "completed"
            /\ cause' = "loop_exit"
            /\ UNCHANGED <<navigated, gc>>
    /\ UNCHANGED <<config, page_start, page, old_pages, results, tasks,
                   collected, old_files, fs, dirCreated, netUsed, hist,
                   unjoined>>

\* one pass of get_content's loop for the page
PageRequest(o) ==
    /\ pc = "get_content"
    /\ gc.ret = "run"
    /\ gc' = get_content(gc, retries, o)
    /\ netUsed' = (netUsed \/ gc'.n > gc.n)
    /\ UNCHANGED <<config, page_start, pc, cause, page, old_pages, navigated,
                   results, tasks, collected, old_files, fs, dirCreated, hist,
                   unjoined>>

\* lines 190-201: `if content`, the parse, the new pool; `break` and line 231
Parse(n) ==
    /\ pc = "get_content"
    /\ gc.ret # "run"
    /\ IF Truthy(gc.ret)
       THEN /\ results' = n
            /\ tasks' = <<>>
            /\ collected' = {}
            /\ old_files' = 0
            /\ pc' = "submit"
            /\ UNCHANGED cause
       ELSE /\ pc' = "completed"
            /\ cause' = "fetch_failure"
            /\ UNCHANGED <<results, tasks, collected, old_files>>
    /\ gc' = GCInit
    /\ UNCHANGED <<config, page_start, page, old_pages, navigated, fs,
                   dirCreated, netUsed, hist,
                   unjoined>>

\* lines 203-220: one pass of the submission loop over an element whose src
\* resolves to path p; strptime raises ValueError on a malformed alt
Submit(p, dateOk) ==
    /\ pc = "submit"
    /\ IF Len(tasks) < results
       THEN IF dateOk
            THEN /\ tasks' = Append(tasks, [path |-> p, st |-> "pending",
                                            gc |-> GCInit])
                 /\ UNCHANGED <<pc, cause>>
            ELSE /\ pc' = "unwinding"
                 /\ cause' = "ValueError"
                 /\ UNCHANGED tasks
       ELSE /\ pc' = "as_completed"
            /\ UNCHANGED <<tasks, cause>>
    /\ UNCHANGED <<config, page_start, page, old_pages, navigated, gc, results,
                   collected, old_files, fs, dirCreated, netUsed, hist, unjoined>>

\* lines 222-224: as_completed yields a finished future; result() re-raises
\* the task's exception
Collect(t) ==
    /\ pc = "as_completed"
    /\ t \in DOMAIN tasks
    /\ t \notin collected
    /\ Terminal(tasks[t].st)
    /\ IF tasks[t].st = "Raised"
       THEN /\ pc' = "unwinding"
            /\ cause' = "task_exception"
            /\ UNCHANGED <<collected, old_files>>
       ELSE /\ collected' = collected \cup {t}
            /\ old_files' = IF tasks[t].st = "Skipped" THEN old_files + 1 ELSE old_files
            /\ UNCHANGED <<pc, cause>>
    /\ UNCHANGED <<config, page_start, page, old_pages, navigated, gc, results,
                   tasks, fs, dirCreated, netUsed, hist,
                   unjoined>>

\* lines 226-227
Evaluate ==
    /\ pc = "as_completed"
    /\ AsCompletedDone(tasks, collected)
    /\ old_pages' = NextOldPages(old_pages, old_files, tasks)
    /\ hist' = Append(hist, PageKind(tasks))
    /\ pc' = "exit_pool"
    /\ UNCHANGED <<config, page_start, cause, page, navigated, gc, results,
                   tasks, collected, old_files, fs, dirCreated, netUsed,
                   unjoined>>

\* the end of the with block, then line 229; the page's element list, futures
\* and counters are not read again and are dropped here
Advance ==
    /\ pc = "exit_pool"
    /\ PoolDrained(tasks)
    /\ page' = page + 1
    /\ unjoined' = (unjoined \/ \E t \in DOMAIN tasks : ~Terminal(tasks[t].st))
    /\ results' = 0
    /\ tasks' = <<>>
    /\ collected' = {}
    /\ old_files' = 0
    /\ pc' = "loop"
    /\ UNCHANGED <<config, page_start, cause, old_pages, navigated, gc,
                   fs, dirCreated, netUsed, hist>>

\* KeyboardInterrupt raised in the main thread
Interrupt ==
    /\ pc \notin Final
    /\ pc # "unwinding"
    /\ pc' = "unwinding"
    /\ cause' = "interrupt"
    /\ UNCHANGED <<config, page_start, page, old_pages, navigated, gc, results,
                   tasks, collected, old_files, fs, dirCreated, netUsed, hist,
                   unjoined>>

\* an exception leaves the with block (the pool is joined) and then main():
\* lines 232-236 for KeyboardInterrupt, a traceback for anything else
Unwind ==
    /\ pc = "unwinding"
    /\ PoolDrained(tasks)
    /\ pc' = IF cause = "interrupt" THEN "interrupted" ELSE "crashed"
    /\ UNCHANGED <<config, page_start, cause, page, old_pages, navigated, gc,
                   results, tasks, collected, old_files, fs, dirCreated,
                   netUsed, hist,
                   unjoined>>

\* ------------------------------------------------------ download_image()
TaskFrame == <<config, page_start, pc, cause, page, old_pages, navigated, gc,
               results, collected, old_files, dirCreated, hist, unjoined>>

\* a worker thread of the pool takes the task: line 27
TaskStart(t) ==
    /\ t \in DOMAIN tasks
    /\ tasks[t].st = "pending"
    /\ WorkerFree(NumExecuting, workers)
    /\ tasks' = [tasks EXCEPT ![t].st = "get_content"]
    /\ UNCHANGED <<TaskFrame, fs, netUsed>>

\* one pass of get_content's loop for the image.  A returned body (b"" too)
\* is held in `content` until line 29 tests it; when get_content returns
\* False or None, lines 29 and 53 follow in the same thread
TaskRequest(t, o) ==
    /\ t \in DOMAIN tasks
    /\ tasks[t].st = "get_content"
    /\ LET g == get_content(tasks[t].gc, retries, o) IN
       /\ tasks' = [tasks EXCEPT ![t] =
             IF g.ret = "run" THEN [@ EXCEPT !.gc = g]
             ELSE IF g.ret \in Bodies
                  THEN [@ EXCEPT !.st = "content", !.gc = [GCInit EXCEPT !.ret = g.ret]]
             ELSE [@ EXCEPT !.st = "Failed", !.gc = GCInit]]
       /\ netUsed' = (netUsed \/ g.n > tasks[t].gc.n)
    /\ UNCHANGED <<TaskFrame, fs>>

\* lines 29-43 and 48-53: `if content`, the path, makedirs (which can raise
\* OSError) and the isfile test
TaskCheck(t, mkdirOk) ==
    /\ t \in DOMAIN tasks
    /\ tasks[t].st = "content"
    /\ tasks' = [tasks EXCEPT ![t] =
          [@ EXCEPT !.gc = GCInit,
                    !.st = IF ~Truthy(tasks[t].gc.ret) THEN "Failed"
                           ELSE IF ~mkdirOk THEN "Raised"
                           ELSE IF ShouldWrite(fs[tasks[t].path] # "absent", force)
                                THEN "open"
                           ELSE "Skipped"]]
    /\ UNCHANGED <<TaskFrame, fs, netUsed>>

\* lines 44-47: open(path, "wb") and write; how == "ok", "open" (open raises,
\* the file is untouched) or "write" (write raises, the file is truncated)
TaskWrite(t, how) ==
    /\ t \in DOMAIN tasks
    /\ tasks[t].st = "open"
    /\ tasks' = [tasks EXCEPT ![t] =
          IF how = "ok" THEN [@ EXCEPT !.st = "Downloaded"]
          ELSE [@ EXCEPT !.st = "Raised"]]
    /\ fs' = CASE how = "ok"    -> [fs EXCEPT ![tasks[t].path] = "new"]
               [] how = "write" -> [fs EXCEPT ![tasks[t].path] = "partial"]
               [] OTHER         -> fs
    /\ UNCHANGED <<TaskFrame, netUsed>>

Next ==
    \/ Setup
    \/ ResolveStart
    \/ Validate
    \/ Loop
    \/ \E o \in Outcomes : PageRequest(o)
    \/ \E n \in PageSizes : Parse(n)
    \/ \E p \in Paths, ok \in BOOLEAN : Submit(p, ok)
    \/ \E t \in 1..MaxItems : Collect(t)
    \/ Evaluate
    \/ Advance
    \/ Interrupt
    \/ Unwind
    \/ \E t \in 1..MaxItems : TaskStart(t)
    \/ \E t \in 1..MaxItems, o \in Outcomes : TaskRequest(t, o)
    \/ \E t \in 1..MaxItems, ok \in BOOLEAN : TaskCheck(t, ok)
    \/ \E t \in 1..MaxItems, how \in {"ok", "open", "write"} : TaskWrite(t, how)

Spec == Init /\ [][Next]_vars

\* Narrower sets of runs, for the properties whose cases need a deep crawl or
\* a wide pool: the options a property does not depend on are held at one
\* value.  Every file exists before a crawl of InitPageEnd and InitBreak.
AllOnDisk == \A p \in Paths : fs[p] = "old"

\* bounded page-end, duplicate-page cutoff off, one worker
InitPageEnd ==
    /\ Init
    /\ retries = 1
    /\ workers = 1
    /\ break_number = 0
    /\ page_end # 0
    /\ AllOnDisk

SpecPageEnd == InitPageEnd /\ [][Next]_vars

\* unbounded page-end, start at page 1, cutoff on, one worker
InitBreak ==
    /\ Init
    /\ retries = 1
    /\ workers = 1
    /\ break_number # 0
    /\ page_end = 0
    /\ page_start = 0
    /\ url = SeedPlain
    /\ AllOnDisk

SpecBreak == InitBreak /\ [][Next]_vars

\* pages 1 and 2, cutoff off, force off, every pool width
InitPool ==
    /\ Init
    /\ retries = 1
    /\ force = FALSE
    /\ break_number = 0
    /\ page_end = 2
    /\ page_start = 0
    /\ url = SeedPlain

SpecPool == InitPool /\ [][Next]_vars

\* page 1 only, cutoff off, one worker, every retries value
InitFetch ==
    /\ Init
    /\ workers = 1
    /\ break_number = 0
    /\ page_end = 1
    /\ page_start = 0
    /\ url = SeedPlain

SpecFetch == InitFetch /\ [][Next]_vars

\* every seed form; pages up to MaxPageEnd, cutoff off, one worker
InitUrl ==
    /\ Start(SeedUrls)
    /\ retries = 1
    /\ workers = 1
    /\ break_number = 0
    /\ page_end = MaxPageEnd
    /\ page_start = 0
    /\ AllOnDisk

SpecUrl == InitUrl /\ [][Next]_vars

\* page 1 only with every retries value; the last two pages of a bounded
\* page-end, and an unbounded page-end with force off, with one attempt per
\* request; cutoff off, one worker
InitTerm ==
    /\ Init
    /\ workers = 1
    /\ break_number = 0
    /\ \/ page_end = 1 /\ page_start = 0
       \/ page_end = MaxPageEnd /\ page_start = MaxPageEnd - 1 /\ retries = 1
       \/ page_end = 0 /\ page_start = MaxPageEnd /\ retries = 1 /\ ~force
    /\ url = SeedPlain
    /\ AllOnDisk

\* a step of the program: Next without the user's interrupt
Step ==
    \/ Setup
    \/ ResolveStart
    \/ Validate
    \/ Loop
    \/ \E o \in Outcomes : PageRequest(o)
    \/ \E n \in PageSizes : Parse(n)
    \/ \E p \in Paths, ok \in BOOLEAN : Submit(p, ok)
    \/ \E t \in 1..MaxItems : Collect(t)
    \/ Evaluate
    \/ Advance
    \/ Unwind
    \/ \E t \in 1..MaxItems : TaskStart(t)
    \/ \E t \in 1..MaxItems, o \in Outcomes : TaskRequest(t, o)
    \/ \E t \in 1..MaxItems, ok \in BOOLEAN : TaskCheck(t, ok)
    \/ \E t \in 1..MaxItems, how \in {"ok", "open", "write"} : TaskWrite(t, how)

\* the main thread and the pool's threads keep running, and every request
\* returns (requests.get is given a timeout): a step that can be taken is
\* taken.  The interrupt is the user's and need not come.
SpecTerm == InitTerm /\ [][Next]_vars /\ WF_vars(Step)

\* ================================================================ claims
Last(s) == s[Len(s)]

\* C1: a get_content call that met only retryable errors made exactly
\* retries + 1 requests and returned a failure; a call whose attempt k was
\* the first to get an HTTP response made exactly k requests.
C1_RetryBound ==
    (pc = "get_content" /\ gc.ret # "run") =>
        /\ gc.first = 0 => (gc.n = retries + 1 /\ ~Truthy(gc.ret))
        /\ gc.first # 0 => gc.n = gc.first

\* C2: once a page with an item that is not Skipped has been evaluated, the
\* duplicate-page counter is 0.
C2_CounterReset ==
    (pc = "exit_pool" /\ Last(hist) = "other") => old_pages = 0

\* C3: a page with zero items is the last page of the crawl: no URL of a
\* later page is built, whatever break-number and page-end are, and the
\* crawl ends by leaving the loop, not by a fetch failure.
C3_EmptyPageEnds ==
    \A k \in DOMAIN hist :
        hist[k] = "empty" =>
            /\ k = Len(hist)
            /\ navigated = page_start + k - 1
            /\ pc = "completed" => cause = "loop_exit"

\* C4: with page-end = E # 0 no URL of a page above E is ever built, and a
\* crawl that leaves the loop without the duplicate-page bound being reached
\* has fetched and evaluated every page up to E and stands at E + 1.
C4_PageEnd ==
    page_end # 0 =>
        /\ navigated <= page_end
        /\ (pc = "completed" /\ cause = "loop_exit"
               /\ (break_number = 0 \/ old_pages < break_number)) =>
              /\ page = page_end + 1
              /\ navigated = page_end
              /\ Len(hist) = page_end - page_start + 1

C4_Witness ==
    /\ page_end = 2
    /\ page_start = 1
    /\ break_number = 0
    /\ pc = "completed"
    /\ cause = "loop_exit"
    /\ navigated = 2
    /\ Len(hist) = 2

\* C5: a crawl that ended because a page fetch failed does not report
\* "completed" and does not exit with status 0.
C5_FetchFailureReported ==
    (pc \in Final /\ cause = "fetch_failure") =>
        (Report # "Downloading completed!" /\ ExitStatus # 0)

\* C6: the duplicate-page counter and the page number change, and the next
\* page's URL is built, only when every task submitted for the page has
\* finished.
C6_PageBarrier ==
    /\ pc = "exit_pool" => \A t \in DOMAIN tasks : Terminal(tasks[t].st)
    /\ ~unjoined

C6_Witness ==
    /\ pc = "exit_pool"
    /\ page > page_start
    /\ workers = 2
    /\ Len(tasks) = 2
    /\ tasks[1].st = "Downloaded"
    /\ tasks[2].st = "Failed"

\* C7: an item whose fetch or write fails ends as Failed, and the failure
\* does not abort the page or the crawl.
C7_ItemErrorScoped ==
    /\ \A t \in DOMAIN tasks : tasks[t].st # "Raised"
    /\ cause # "task_exception"

\* C8: a malformed date on one item does not abort the page or the crawl.
C8_BadDateScoped ==
    cause = "ValueError" => pc \notin {"unwinding", "crashed"}

\* C9: when the page range is rejected, no request has been issued and the
\* host directory and its marker file have not been created.
C9_NoSideEffect ==
    pc = "config_error" => (~netUsed /\ ~dirCreated)

\* C10: with break-number = B > 0 and force off, once B pages in a row were
\* all-Skipped (with at least one item each) no URL of a further page is
\* built.
SkippedRunEndsAt(k) ==
    /\ k >= break_number
    /\ \A j \in (k - break_number + 1)..k : hist[j] = "skipped"

C10_DuplicateCutoff ==
    (break_number > 0 /\ ~force) =>
        \A k \in DOMAIN hist :
            SkippedRunEndsAt(k) =>
                /\ k = Len(hist)
                /\ navigated = page_start + k - 1
                /\ pc \in {"exit_pool", "loop", "completed", "unwinding", "interrupted"}

C10_Witness ==
    /\ break_number = 2
    /\ ~force
    /\ page_end = 0
    /\ hist = <<"skipped", "skipped">>
    /\ pc = "completed"
    /\ cause = "loop_exit"

\* C11: a 200 response is a success whatever its body holds, the empty body
\* included: the page whose fetch returned a body is parsed, and the task
\* whose fetch returned a body goes on to the existence test and the write,
\* never to Failed.
C11_OkIsSuccess ==
    [][/\ (pc = "get_content" /\ gc.ret \in Bodies /\ pc' \notin {pc, "unwinding"})
            => pc' = "submit"
       /\ \A t \in DOMAIN tasks \cap DOMAIN tasks' :
            (tasks[t].st = "content" /\ tasks'[t].st # "content")
                => tasks'[t].st # "Failed"]_vars

\* C12: a status other than 200 ends the get_content call at once: as soon as
\* an attempt has received an HTTP response the call has returned, it made no
\* request after that attempt, and it returned a failure when the status was
\* not 200 -- for every retries value and however many attempts were left.
C12_Non200Authoritative ==
    /\ pc = "get_content" =>
          /\ gc.first # 0 => (gc.ret # "run" /\ gc.n = gc.first)
          /\ gc.ret = "False" => (gc.first # 0 \/ gc.i = retries)
    /\ \A t \in DOMAIN tasks :
          tasks[t].st = "get_content" => tasks[t].gc.first = 0

C12_Witness ==
    /\ retries = MaxRetries
    /\ pc = "get_content"
    /\ gc = [i |-> 1, n |-> 1, ret |-> "False", first |-> 1]

\* the navigator=<digits> terms of a seed's query, and the seed without them:
\* what stands before the query, then the other terms joined by '&'
IsNavTerm(q) ==
    /\ StartsWith(q, navigator \o <<"=">>)
    /\ AllDigits(Tail0(q, Len(navigator) + 1))

NavTerms(u) == SelectSeq(Split(Query(u), "&"), IsNavTerm)

RECURSIVE Join(_)
Join(qs) == IF qs = <<>> THEN <<>>
            ELSE IF Len(qs) = 1 THEN qs[1]
            ELSE qs[1] \o <<"&">> \o Join(Tail(qs))

SeedWithoutNav(u) ==
    SubSeq(u, 1, Find(u, <<"?">>) + 1)
        \o Join(SelectSeq(Split(Query(u), "&"), LAMBDA q : ~IsNavTerm(q)))

Occurrences(s, sub) ==
    Cardinality({i \in 0..(Len(s) - Len(sub)) : SubSeq(s, i + 1, i + Len(sub)) = sub})

\* C13: when the seed's query holds navigator=<digits>, resolving the start
\* sets the first page to that number and leaves the seed with that term and
\* one adjacent separator removed -- the other parameters still joined by
\* '&' -- wherever the term stood, and the page URL built from it holds the
\* navigator exactly once.
C13_NavExtraction ==
    [][(pc = "resolve" /\ pc' = "validate" /\ NavTerms(url) # <<>>) =>
          /\ page_start' = ToInt(Tail0(NavTerms(url)[1], Len(navigator) + 1))
          /\ url' = SeedWithoutNav(url)
          /\ Occurrences(NavigatedUrl(url', page_start'), navigator \o <<"=">>) = 1]_vars

\* C14 (as stated): in a crawl with force off that finds the files of an
\* earlier crawl on disk, every item whose file is there ends Skipped.
C14_AllSkipped ==
    ~force =>
        \A t \in DOMAIN tasks :
            (fs[tasks[t].path] = "old" /\ Terminal(tasks[t].st))
                => tasks[t].st = "Skipped"

\* C14 (amended): in a crawl with force off, an item whose file an earlier
\* crawl left on disk is never written and never ends Downloaded; it ends
\* Skipped unless its fetch fails or its directory cannot be created, and a
\* page evaluated with every file on disk holds no Downloaded item.
C14_NoSecondDownload ==
    ~force =>
        /\ \A t \in DOMAIN tasks :
              fs[tasks[t].path] = "old" =>
                  tasks[t].st \in {"pending", "get_content", "content",
                                   "Skipped", "Failed", "Raised"}
        /\ (AllOnDisk /\ pc = "exit_pool") =>
              \A t \in DOMAIN tasks : tasks[t].st \in {"Skipped", "Failed"}

C14_Witness ==
    /\ ~force
    /\ AllOnDisk
    /\ pc = "exit_pool"
    /\ Len(tasks) = 2
    /\ \A t \in DOMAIN tasks : tasks[t].st = "Skipped"

\* C15: two tasks of a page whose items resolve to the same path are never
\* both past the existence test with the write still to do, and with force
\* off at most one of them ends Downloaded.
C15_NoConcurrentWrite ==
    \A t1, t2 \in DOMAIN tasks :
        (t1 # t2 /\ tasks[t1].path = tasks[t2].path) =>
            /\ ~(tasks[t1].st = "open" /\ tasks[t2].st = "open")
            /\ ~force => ~(tasks[t1].st = "Downloaded" /\ tasks[t2].st = "Downloaded")

\* C16: the dispatcher's pool is bounded and joined: at most `workers` tasks
\* execute at once; no more tasks are submitted than the page has items; and
\* the with block is left normally only when there is one task per item and
\* every task has ended Downloaded, Skipped or Failed.
C16_BoundedPool ==
    /\ Cardinality({t \in DOMAIN tasks :
                       tasks[t].st \in {"get_content", "content", "open"}}) <= workers
    /\ pc \in {"submit", "as_completed", "exit_pool"} => Len(tasks) <= results
    /\ pc \in {"as_completed", "exit_pool"} => Len(tasks) = results
    /\ pc = "exit_pool" =>
          \A t \in DOMAIN tasks : tasks[t].st \in {"Downloaded", "Skipped", "Failed"}
    /\ pc = "loop" => tasks = <<>>

\* one worker: a task is past the existence test while the other is queued
C16_Witness ==
    /\ workers = 1
    /\ Len(tasks) = 2
    /\ tasks[1].st = "open"
    /\ tasks[2].st = "pending"

\* C17: once the interrupt has been delivered, no further page is fetched
\* (no URL is built and no page request is made), no task is dropped or
\* aborted -- each one either stays as it is or takes a step of its own -- and
\* main() ends only when every task of the page has finished, reporting
\* "Interrupted", never "Downloading completed!".
C17_Interruption ==
    [][cause = "interrupt" =>
          /\ cause' = "interrupt"
          /\ pc' \in {"unwinding", "interrupted"}
          /\ <<navigated, page, gc, hist>>' = <<navigated, page, gc, hist>>
          /\ Len(tasks') = Len(tasks)
          /\ \A t \in DOMAIN tasks :
                /\ tasks'[t].path = tasks[t].path
                /\ Terminal(tasks[t].st) => tasks'[t] = tasks[t]
          /\ pc' = "interrupted" =>
                \A t \in DOMAIN tasks' : Terminal(tasks'[t].st)]_vars

\* the interrupt has been delivered while one task is past the existence
\* test and the other has not started
C17_Witness ==
    /\ pc = "unwinding"
    /\ cause = "interrupt"
    /\ Len(tasks) = 2
    /\ tasks[1].st = "open"
    /\ tasks[2].st = "pending"

\* C18: with force off, no step changes a file that was on disk before the
\* crawl; a task that finds its file on disk at the existence test ends
\* Skipped and writes nothing; and the step in which a task's fetch fails
\* leaves the file system as it is.
C18_ExistingUntouched ==
    [][~force =>
          /\ \A p \in Paths : fs[p] = "old" => fs'[p] = "old"
          /\ \A t \in DOMAIN tasks \cap DOMAIN tasks' :
                /\ ( /\ tasks[t].st = "content"
                     /\ Truthy(tasks[t].gc.ret)
                     /\ fs[tasks[t].path] # "absent"
                     /\ tasks'[t].st \notin {"content", "Raised"} )
                       => (tasks'[t].st = "Skipped" /\ fs' = fs)
                /\ tasks[t].st = "Skipped" => tasks'[t] = tasks[t]
                /\ (tasks[t].st # "Failed" /\ tasks'[t].st = "Failed") => fs' = fs]_vars

\* a page evaluated with force off: the file was there before the crawl, one
\* task was Skipped and the other's fetch failed
C18_Witness ==
    /\ ~force
    /\ pc = "exit_pool"
    /\ Len(tasks) = 2
    /\ fs[tasks[1].path] = "old"
    /\ tasks[1].st = "Skipped"
    /\ tasks[2].st = "Failed"

\* the steps one get_content call can still take, and those of a task
CallBudget == IF retries = 0 THEN 1 ELSE retries

CallRank(g) == IF g.ret = "run" THEN CallBudget - g.i + 1 ELSE 0

TaskRank(tk) ==
    CASE tk.st = "pending"     -> CallBudget + 3
      [] tk.st = "get_content" -> CallRank(tk.gc) + 2
      [] tk.st = "content"     -> 2
      [] tk.st = "open"        -> 1
      [] OTHER                 -> 0

RECURSIVE TasksRank(_)
TasksRank(ts) == IF ts = <<>> THEN 0
                 ELSE TaskRank(Head(ts)) + TasksRank(Tail(ts))

\* the steps a page can take once its content is parsed, and in all
AfterParse == (MaxItems + 1) + MaxItems * (CallBudget + 3) + MaxItems + 4

PageBudget == CallBudget + 1 + AfterParse

\* a bound on the steps still to come in a crawl with a bounded page-end
Rank ==
    CASE pc = "start"        -> page_end * PageBudget + 5
      [] pc = "resolve"      -> page_end * PageBudget + 4
      [] pc = "validate"     -> page_end * PageBudget + 3
      [] pc = "loop"         -> (page_end - page + 1) * PageBudget + 2
      [] pc = "get_content"  -> (page_end - page) * PageBudget
                                    + CallRank(gc) + 1 + AfterParse
      [] pc = "submit"       -> (page_end - page) * PageBudget
                                    + (results - Len(tasks) + 1)
                                    + (results - Len(tasks)) * (CallBudget + 3)
                                    + TasksRank(tasks) + results + 4
      [] pc = "as_completed" -> (page_end - page) * PageBudget
                                    + TasksRank(tasks)
                                    + (Len(tasks) - Cardinality(collected)) + 4
      [] pc = "exit_pool"    -> (page_end - page) * PageBudget + TasksRank(tasks) + 3
      [] pc = "unwinding"    -> TasksRank(tasks) + 1
      [] OTHER               -> 0

\* C19: under a bounded page-end every step lowers Rank, which is never
\* negative, and until main() has ended some step of the program can be
\* taken: the crawl reaches a terminal state.  No page above page-end is
\* requested (at most page_end - page_start + 1 pages), and a get_content
\* call never makes more requests than `retries`.  With page-end and
\* break-number both 0, "completed" is reported only after a page-fetch
\* failure.  Under the fairness of SpecTerm a crawl with a bounded page-end
\* eventually ends.
C19_Termination ==
    /\ []((page_end # 0 /\ pc \notin Final) => ENABLED Step)
    /\ [][/\ page_end # 0 => (Rank' < Rank /\ Rank' >= 0)
          /\ (page_end # 0 /\ navigated' # 0) =>
                (navigated' >= page_start' /\ navigated' <= page_end)
          /\ gc'.n <= retries
          /\ \A t \in DOMAIN tasks' : tasks'[t].gc.n <= retries
          /\ (page_end = 0 /\ break_number = 0 /\ pc' = "completed") =>
                cause' = "fetch_failure"]_vars
    /\ (page_end # 0 => <>(pc \in Final))

\* the last page of a bounded crawl has been evaluated after every request
\* of the crawl used all its attempts but the last
C19_Witness ==
    /\ page_end = MaxPageEnd
    /\ page = page_end
    /\ pc = "exit_pool"
    /\ Len(hist) = MaxPageEnd
    /\ Len(tasks) = 1
    /\ tasks[1].st = "Skipped"

\* C20: with force on no task ends Skipped and no future is counted as old,
\* so the duplicate-page counter equals the number of evaluated pages with
\* zero items; a crawl with force on and an unbounded page-end whose pages
\* all held an item has the counter at 0 and has not left the loop by its
\* test, whatever break-number is.
C20_ForceNeverSkips ==
    force =>
        /\ \A t \in DOMAIN tasks : tasks[t].st # "Skipped"
        /\ old_files = 0
        /\ old_pages = Cardinality({k \in DOMAIN hist : hist[k] = "empty"})
        /\ (page_end = 0 /\ \A k \in DOMAIN hist : hist[k] # "empty") =>
              /\ old_pages = 0
              /\ ~(pc = "completed" /\ cause = "loop_exit")

\* force on, cutoff at one page: MaxPage pages, each with a file that was
\* already on disk, have been evaluated
C20_Witness ==
    /\ force
    /\ break_number = 1
    /\ page_end = 0
    /\ pc = "exit_pool"
    /\ Len(hist) = MaxPage
    /\ \A k \in DOMAIN hist : hist[k] = "other"
    /\ Len(tasks) = 1
    /\ tasks[1].st = "Downloaded"
====
